---- MODULE Spec2Model ----
(***************************************************************************)
(* TwitRec: the recording supervisor (StreamRecorder), the channel monitor *)
(* thread and the menu thread of main.py, with the capture processes and   *)
(* the signal handler.  POSIX branch (os.name != 'nt').                    *)
(*                                                                         *)
(* Two threads share StreamRecorder.active_recordings without a lock:      *)
(* "main" (TwitRec.run and the signal handler, which Python runs on the    *)
(* main thread) and "mon" (TwitRec._background_monitor).  A step of the    *)
(* model is one access to shared state (the registry or a process) plus    *)
(* the thread-local code up to the next such access.                       *)
(***************************************************************************)
EXTENDS Integers, Sequences, FiniteSets, TLC

Channels == {"a", "b"}
Qualities == {"best"}
DefaultQuality == "best"
ApiAnswers == {"live", "offline", "error", "malformed"}
Threads == {"main", "mon"}

\* bounds of the model
MaxProcs == 2
MaxSignals == 1

\* config 'check_interval' (60 by default), in seconds
CheckInterval == 2

\* process.wait(timeout=10)
StopTimeout == 10

VARIABLES
    active_recordings,   \* StreamRecorder.active_recordings: insertion-ordered dict
    procs,               \* the capture processes ever spawned, by pid
    th,                  \* per thread: position and locals
    returned,            \* what the step just taken returned to its caller
    interrupted,         \* frame of the main thread under the running signal handler
    signals,             \* termination signals delivered so far
    running,             \* TwitRec.running
    watched_streamers,   \* TwitRec.watched_streamers
    watched_file,        \* content of watched.json
    monitor_threads,     \* live threads that run TwitRec._background_monitor
    gen,                 \* StreamRecorder._generate_filename: the call in progress
    api,                 \* TwitchAPIClient: clock, cached token, the call in progress
    stopped              \* history: processes still held by a call whose
                         \* session a stop_recording has reported removed

vars == <<active_recordings, procs, th, returned, interrupted, signals, running,
          watched_streamers, watched_file, monitor_threads, gen,
          api, stopped>>

----------------------------------------------------------------------------
(* The dict active_recordings: a sequence of entries in insertion order.   *)

Keys(reg) == {reg[i].key : i \in 1..Len(reg)}

KeyList(reg) == [i \in 1..Len(reg) |-> reg[i].key]

Has(reg, k) == k \in Keys(reg)

Get(reg, k) == reg[CHOOSE i \in 1..Len(reg) : reg[i].key = k]

\* reg[k] = e : an existing key keeps its position, a new key goes last
Put(reg, k, e) ==
    IF Has(reg, k)
    THEN [i \in 1..Len(reg) |-> IF reg[i].key = k THEN e ELSE reg[i]]
    ELSE Append(reg, e)

\* del reg[k]
Del(reg, k) == SelectSeq(reg, LAMBDA e : e.key # k)

Contains(s, x) == \E i \in 1..Len(s) : s[i] = x

----------------------------------------------------------------------------
(* watched.json.  The content of the file is the sequence of JSON tokens   *)
(* that json.dump writes for a list of strings: "[", the strings separated *)
(* by ",", and "]".  NoFile stands for a file that does not exist.         *)

NoFile == <<>>

Tok(kind, text) == [kind |-> kind, text |-> text]

RECURSIVE Items(_)
Items(w) ==
    IF w = <<>> THEN <<>>
    ELSE IF Len(w) = 1 THEN <<Tok("string", w[1])>>
    ELSE <<Tok("string", w[1]), Tok(",", "")>> \o Items(Tail(w))

\* json.dump(self.watched_streamers, f)
json_dump(w) == <<Tok("[", "")>> \o Items(w) \o <<Tok("]", "")>>

\* json.load(f) of a file written by json_dump: the strings between the
\* brackets, in their order
json_load(f) ==
    LET strings == SelectSeq(f, LAMBDA tok : tok.kind = "string")
    IN  [i \in 1..Len(strings) |-> strings[i].text]

\* _load_watched_streamers, lines 266-271: the list is replaced only when
\* the file exists
Load(w, f) == IF f = NoFile THEN w ELSE json_load(f)

----------------------------------------------------------------------------
(* Capture processes, one entry per subprocess.Popen object.  st is        *)
(* "running", "zombie" (exited, exit status not yet collected) or "reaped" *)
(* (exit status collected by poll()/wait(): Popen.returncode is set and    *)
(* the pid is gone).  sig is "TERM" while a running process has a SIGTERM  *)
(* pending.  An entry of a reaped process that nothing refers to any more  *)
(* is reused by the next Popen.                                            *)

NoProc == 0

Pids == 1..Len(procs)

Exited(p) == procs[p].st # "running"

\* Popen.poll() / a returning Popen.wait(): collects the status of an exited
\* child, after which the system has no such process any more
Zombie == [st |-> "zombie", sig |-> "none"]

Gone == [st |-> "reaped", sig |-> "none"]

Reap(ps, p) == IF ps[p].st = "zombie" THEN [ps EXCEPT ![p] = Gone] ELSE ps

\* os.getpgid(pid) raises ProcessLookupError once the pid has been reaped
CanSignal(p) == procs[p].st # "reaped"

\* a signal acts on a running process only: SIGTERM asks it to exit,
\* SIGKILL ends it
SendTerm(ps, p) ==
    IF ps[p].st = "running" THEN [ps EXCEPT ![p].sig = "TERM"] ELSE ps

SendKill(ps, p) ==
    IF ps[p].st = "running" THEN [ps EXCEPT ![p] = Zombie] ELSE ps

----------------------------------------------------------------------------
(* Thread frames.  pc is the position; ctx is the caller of the supervisor *)
(* operation in progress: "start_action", "stop_action", "list_action"     *)
(* (menu choices 1..3), "exit" (menu choice 8), "signal" (_signal_handler) *)
(* or "mon" (_background_monitor).  returned holds the result of the       *)
(* supervisor call that the last step completed: the thread, the           *)
(* operation, its channel, the value ("True", "False", "ok", or "raised"   *)
(* for an exception that left the operation) and, for                      *)
(* get_active_recordings, the keys of the returned copy.                   *)

NoRet == [t |-> "", op |-> "none", chan |-> "", val |-> "none", keys |-> <<>>]

Frame0(pc) ==
    [pc |-> pc, ctx |-> "none", chan |-> "", quality |-> "", proc |-> NoProc,
     waited |-> 0, streamers |-> <<>>, todo |-> <<>>, live |-> FALSE,
     pos |-> 0, used |-> 0, finished |-> <<>>, at_call |-> {},
     tracked |-> {}, waits |-> 0, answer |-> ""]

NoFrame == Frame0("none")

\* positions inside the try block of start_recording / stop_recording
StartTry == {"start_spawn", "start_poll", "start_register"}
StopTry == {"stop_term", "stop_wait", "stop_del1"}

\* a frame of the monitor inside its pass over the watch-list: todo are the
\* channels still to visit, at_call the processes of registered sessions that
\* had exited when the pass began
MonFrame(fr, pc) ==
    [Frame0(pc) EXCEPT !.ctx = "mon", !.todo = fr.todo, !.at_call = fr.at_call]

\* stop_all_recordings, lines 274-275: the next self.stop_recording(streamer),
\* or the end of the loop, after which both callers leave the process
\* (sys.exit(0) at main.py:64, break at main.py:381).  The frame keeps what
\* the call has seen: tracked and at_call are the processes of the sessions
\* registered at line 273 and those of them that had exited by then, waited
\* is the longest wait of a stop_recording of this call, waits the number of
\* its calls of process.wait.
StopAllNext(fr, streamers) ==
    LET seen == [Frame0("exited") EXCEPT
                    !.ctx = fr.ctx, !.tracked = fr.tracked,
                    !.at_call = fr.at_call, !.waited = fr.waited,
                    !.waits = fr.waits]
    IN  IF streamers = <<>> THEN seen
        ELSE [seen EXCEPT
                !.pc = "stop_check",
                !.chan = Head(streamers), !.streamers = Tail(streamers)]

\* the monitor leaving a live channel that is not recording as it is
Return_SkipsStart(fr, op, val, keys) ==
    CASE op = "is_recording" /\ ~fr.live /\ val = "True" ->
            [MonFrame(fr, "stop_check") EXCEPT !.chan = fr.chan,
                                               !.answer = fr.answer]
      [] op = "is_recording" ->
            MonFrame(fr, "mon_next")
      [] op \in {"start", "stop"} /\ fr.ctx = "mon" ->
            MonFrame(fr, "mon_next")
      [] op = "stop" /\ fr.ctx \in {"exit", "signal"} ->
            StopAllNext(fr, fr.streamers)
      [] op = "list" /\ fr.ctx = "stop_action" /\ keys # <<>> ->
            [Frame0("stop_choose") EXCEPT !.ctx = "stop_action"]
      [] OTHER -> Frame0("menu")

\* the monitor starting a live channel without regard to is_recording
Return_StartsWhenLive(fr, op, val, keys) ==
    CASE op = "is_recording" /\ fr.live ->
            [MonFrame(fr, "start_check") EXCEPT
                !.chan = fr.chan, !.quality = DefaultQuality]
      [] op = "is_recording" /\ ~fr.live /\ val = "True" ->
            [MonFrame(fr, "stop_check") EXCEPT !.chan = fr.chan]
      [] op = "is_recording" /\ ~fr.live /\ val # "True" ->
            MonFrame(fr, "mon_next")
      [] op \in {"start", "stop"} /\ fr.ctx = "mon" ->
            MonFrame(fr, "mon_next")
      [] op = "stop" /\ fr.ctx \in {"exit", "signal"} ->
            StopAllNext(fr, fr.streamers)
      [] op = "list" /\ fr.ctx = "stop_action" /\ keys # <<>> ->
            [Frame0("stop_choose") EXCEPT !.ctx = "stop_action"]
      [] OTHER -> Frame0("menu")

\* the frame of the caller after the operation op returned val
Return(fr, op, val, keys) ==
    CASE op = "is_recording" /\ fr.live /\ val = "False" ->
            [MonFrame(fr, "start_check") EXCEPT
                !.chan = fr.chan, !.quality = DefaultQuality]
      [] op = "is_recording" /\ ~fr.live /\ val = "True" ->
            [MonFrame(fr, "stop_check") EXCEPT !.chan = fr.chan,
                                               !.answer = fr.answer]
      [] op = "is_recording" /\ fr.live = (val = "True") ->
            MonFrame(fr, "mon_next")
      [] op \in {"start", "stop"} /\ fr.ctx = "mon" ->
            MonFrame(fr, "mon_next")
      [] op = "stop" /\ fr.ctx \in {"exit", "signal"} ->
            StopAllNext(fr, fr.streamers)
      [] op = "list" /\ fr.ctx = "stop_action" /\ keys # <<>> ->
            [Frame0("stop_choose") EXCEPT !.ctx = "stop_action"]
      [] OTHER -> Frame0("menu")

\* run() without the 'except Exception' of lines 392-395: an exception of a
\* menu action ends the process
Unwind_RunDies(fr) ==
    IF fr.pc \in StartTry THEN Return(fr, "start", "False", <<>>)
    ELSE IF fr.pc \in StopTry THEN Return(fr, "stop", "False", <<>>)
    ELSE IF fr.ctx = "mon" THEN MonFrame(fr, "mon_next")
    ELSE Frame0("exited")

\* the monitor without the try/except of lines 280-300: an exception ends
\* the thread
Unwind_MonitorDies(fr) ==
    IF fr.pc \in StartTry THEN Return(fr, "start", "False", <<>>)
    ELSE IF fr.pc \in StopTry THEN Return(fr, "stop", "False", <<>>)
    ELSE IF fr.ctx = "mon" THEN NoFrame
    ELSE Frame0("menu")

\* the frame after an exception raised at fr's position has been caught:
\* inside a try block the operation returns False; otherwise the exception
\* reaches the monitor's per-channel handler or the handler of run()
Unwind(fr) ==
    IF fr.pc \in StartTry THEN Return(fr, "start", "False", <<>>)
    ELSE IF fr.pc \in StopTry THEN Return(fr, "stop", "False", <<>>)
    ELSE IF fr.ctx = "mon" THEN MonFrame(fr, "mon_next")
    ELSE Frame0("menu")

\* what an interrupted frame contributes once _signal_handler runs: the
\* interrupted code resumes only if an exception leaves the handler, at the
\* try block around the interrupted position (an interrupted
\* stop_all_recordings with the record of what it has seen)
Interrupted(fr) ==
    IF fr.pc \in StartTry \cup StopTry
    THEN [Frame0(fr.pc) EXCEPT !.ctx = fr.ctx, !.chan = fr.chan,
                               !.streamers = fr.streamers,
                               !.tracked = fr.tracked, !.at_call = fr.at_call,
                               !.waited = fr.waited, !.waits = fr.waits]
    ELSE Frame0("menu")

At(t, pc) == th["main"].pc # "exited" /\ th[t].pc = pc

Goto(t, fr) ==
    /\ th' = [th EXCEPT ![t] = fr]
    /\ returned' = NoRet

Ret(t, op, val, keys) ==
    /\ th' = [th EXCEPT ![t] = Return(th[t], op, val, keys)]
    /\ returned' = [t |-> t, op |-> op, chan |-> th[t].chan, val |-> val,
                    keys |-> keys]
    /\ UNCHANGED interrupted

\* an exception leaves operation op of thread t.  One that leaves
\* _signal_handler is raised where the main thread was interrupted.
Raise(t, op) ==
    /\ returned' = [t |-> t, op |-> op, chan |-> th[t].chan, val |-> "raised",
                    keys |-> <<>>]
    /\ IF th[t].ctx = "signal"
       THEN /\ th' = [th EXCEPT ![t] = Unwind(interrupted)]
            /\ interrupted' = Frame0("menu")
       ELSE /\ th' = [th EXCEPT ![t] = Unwind(th[t])]
            /\ UNCHANGED interrupted

----------------------------------------------------------------------------
(* StreamRecorder.start_recording                                          *)

SpawnErrors == {"FileNotFoundError", "PermissionError", "OSError"}

Referenced(p) ==
    \/ \E i \in 1..Len(active_recordings) : active_recordings[i].process = p
    \/ \E t \in Threads :
            th[t].proc = p \/ p \in th[t].at_call \/ p \in th[t].tracked

\* the history after stop_recording in thread t returned True: its process,
\* when a call in the other thread or the interrupted frame still holds it
Stopped(t) ==
    IF \/ \E u \in Threads \ {t} : th[u].proc = th[t].proc
       \/ interrupted.proc = th[t].proc
    THEN stopped \cup {th[t].proc}
    ELSE stopped

FreePids == {p \in Pids : procs[p] = Gone /\ ~Referenced(p)}

NewPid ==
    IF FreePids = {} THEN Len(procs) + 1
    ELSE CHOOSE p \in FreePids : \A q \in FreePids : p <= q

NewProc == [st |-> "running", sig |-> "none"]

Session(fr) == [key |-> fr.chan, process |-> fr.proc, quality |-> fr.quality]

\* start_recording without the test of line 64
StartCheck_NoActiveCheck(t, found) ==
    /\ At(t, "start_check")
    /\ IF ~found
       THEN Ret(t, "start", "False", <<>>)
       ELSE Goto(t, [th[t] EXCEPT !.pc = "start_spawn"]) /\ UNCHANGED interrupted
    /\ UNCHANGED <<active_recordings, procs, signals, running,
                   watched_streamers, watched_file>>
    /\ UNCHANGED <<monitor_threads, gen, api, stopped>>

\* lines 64-109: the 'already active' check, then shutil.which("streamlink")
StartCheck(t, found) ==
    /\ At(t, "start_check")
    /\ IF Has(active_recordings, th[t].chan) \/ ~found
       THEN Ret(t, "start", "False", <<>>)
       ELSE Goto(t, [th[t] EXCEPT !.pc = "start_spawn"]) /\ UNCHANGED interrupted
    /\ UNCHANGED <<active_recordings, procs, signals, running,
                   watched_streamers, watched_file>>
    /\ UNCHANGED <<monitor_threads, gen, api, stopped>>

\* lines 116-126: open the log file and Popen the capture process
StartSpawn(t, err) ==
    /\ At(t, "start_spawn")
    /\ IF err \in SpawnErrors
       THEN Ret(t, "start", "False", <<>>) /\ UNCHANGED procs
       ELSE /\ NewPid <= MaxProcs
            /\ procs' = IF NewPid > Len(procs) THEN Append(procs, NewProc)
                         ELSE [procs EXCEPT ![NewPid] = NewProc]
            /\ Goto(t, [th[t] EXCEPT !.pc = "start_poll", !.proc = NewPid])
            /\ UNCHANGED interrupted
    /\ stopped' = IF err \in SpawnErrors THEN stopped ELSE stopped \ {NewPid}
    /\ UNCHANGED <<active_recordings, signals, running,
                   watched_streamers, watched_file>>
    /\ UNCHANGED <<monitor_threads, gen, api>>

\* start_recording registering the session before the poll of line 131
StartPoll_RegistersFirst(t) ==
    /\ At(t, "start_poll")
    /\ IF Exited(th[t].proc)
       THEN /\ procs' = Reap(procs, th[t].proc)
            /\ active_recordings' =
                   Put(active_recordings, th[t].chan, Session(th[t]))
            /\ Ret(t, "start", "False", <<>>)
       ELSE /\ Goto(t, [th[t] EXCEPT !.pc = "start_register"])
            /\ UNCHANGED <<procs, interrupted, active_recordings>>
    /\ UNCHANGED <<signals, running, watched_streamers, watched_file>>
    /\ UNCHANGED <<monitor_threads, gen, api, stopped>>

\* lines 129-145: time.sleep(2), then process.poll()
StartPoll(t) ==
    /\ At(t, "start_poll")
    /\ IF Exited(th[t].proc)
       THEN /\ procs' = Reap(procs, th[t].proc)
            /\ Ret(t, "start", "False", <<>>)
       ELSE /\ Goto(t, [th[t] EXCEPT !.pc = "start_register"])
            /\ UNCHANGED <<procs, interrupted>>
    /\ UNCHANGED <<active_recordings, signals, running,
                   watched_streamers, watched_file>>
    /\ UNCHANGED <<monitor_threads, gen, api, stopped>>

\* lines 149-158: self.active_recordings[streamer] = {...}; return True
StartRegister(t) ==
    /\ At(t, "start_register")
    /\ active_recordings' = Put(active_recordings, th[t].chan, Session(th[t]))
    /\ Ret(t, "start", "True", <<>>)
    /\ UNCHANGED <<procs, signals, running, watched_streamers, watched_file>>
    /\ UNCHANGED <<monitor_threads, gen, api, stopped>>

----------------------------------------------------------------------------
(* StreamRecorder.stop_recording                                           *)

\* stop_recording without the test of line 178
StopCheck_NoCheck(t) ==
    /\ At(t, "stop_check")
    /\ Goto(t, [th[t] EXCEPT !.pc = "stop_read"])
    /\ UNCHANGED <<active_recordings, procs, interrupted, signals, running,
                   watched_streamers, watched_file>>
    /\ UNCHANGED <<monitor_threads, gen, api, stopped>>

\* lines 178-181
StopCheck(t) ==
    /\ At(t, "stop_check")
    /\ IF Has(active_recordings, th[t].chan)
       THEN Goto(t, [th[t] EXCEPT !.pc = "stop_read"]) /\ UNCHANGED interrupted
       ELSE Ret(t, "stop", "False", <<>>)
    /\ UNCHANGED <<active_recordings, procs, signals, running,
                   watched_streamers, watched_file>>
    /\ UNCHANGED <<monitor_threads, gen, api, stopped>>

\* lines 183-184, before the try block: a KeyError is not caught here
StopRead(t) ==
    /\ At(t, "stop_read")
    /\ IF Has(active_recordings, th[t].chan)
       THEN /\ Goto(t, [th[t] EXCEPT !.pc = "stop_term",
                           !.proc = Get(active_recordings, th[t].chan).process])
            /\ UNCHANGED interrupted
       ELSE Raise(t, "stop")
    /\ UNCHANGED <<active_recordings, procs, signals, running,
                   watched_streamers, watched_file>>
    /\ UNCHANGED <<monitor_threads, gen, api, stopped>>

\* an 'except Exception' that drops the session before it returns False
StopTerm_DropsOnError(t) ==
    /\ At(t, "stop_term")
    /\ IF CanSignal(th[t].proc)
       THEN /\ procs' = SendTerm(procs, th[t].proc)
            /\ Goto(t, [th[t] EXCEPT !.pc = "stop_wait", !.waits = @ + 1])
            /\ UNCHANGED <<interrupted, active_recordings>>
       ELSE /\ Ret(t, "stop", "False", <<>>)
            /\ active_recordings' = Del(active_recordings, th[t].chan)
            /\ UNCHANGED procs
    /\ UNCHANGED <<signals, running, watched_streamers, watched_file>>
    /\ UNCHANGED <<monitor_threads, gen, api, stopped>>

\* line 191: os.killpg(os.getpgid(process.pid), SIGTERM); an error is caught
\* by 'except Exception' (lines 213-215)
StopTerm(t) ==
    /\ At(t, "stop_term")
    /\ IF CanSignal(th[t].proc)
       THEN /\ procs' = SendTerm(procs, th[t].proc)
            /\ Goto(t, [th[t] EXCEPT !.pc = "stop_wait", !.waits = @ + 1])
            /\ UNCHANGED interrupted
       ELSE /\ Ret(t, "stop", "False", <<>>)
            /\ UNCHANGED procs
    /\ UNCHANGED <<active_recordings, signals, running,
                   watched_streamers, watched_file>>
    /\ UNCHANGED <<monitor_threads, gen, api, stopped>>

\* line 196: process.wait(timeout=10) returns because the process has exited
\* before the timeout
StopWaitDone(t) ==
    /\ At(t, "stop_wait")
    /\ Exited(th[t].proc)
    /\ procs' = Reap(procs, th[t].proc)
    /\ Goto(t, [th[t] EXCEPT !.pc = "stop_del1"])
    /\ UNCHANGED <<active_recordings, interrupted, signals, running,
                   watched_streamers, watched_file>>
    /\ UNCHANGED <<monitor_threads, gen, api, stopped>>

\* line 196 -> 202: the timeout passes with the process still running and
\* wait raises subprocess.TimeoutExpired; waited is the time spent waiting
StopWaitTimeout(t) ==
    /\ At(t, "stop_wait")
    /\ ~Exited(th[t].proc)
    /\ Goto(t, [th[t] EXCEPT !.pc = "stop_kill", !.waited = StopTimeout])
    /\ UNCHANGED <<active_recordings, procs, interrupted, signals, running,
                   watched_streamers, watched_file>>
    /\ UNCHANGED <<monitor_threads, gen, api, stopped>>

\* lines 198-200, inside the try block: a KeyError is caught (213-215)
StopDel1(t) ==
    /\ At(t, "stop_del1")
    /\ IF Has(active_recordings, th[t].chan)
       THEN /\ active_recordings' = Del(active_recordings, th[t].chan)
            /\ Ret(t, "stop", "True", <<>>)
            /\ stopped' = Stopped(t)
       ELSE /\ Ret(t, "stop", "False", <<>>)
            /\ UNCHANGED <<active_recordings, stopped>>
    /\ UNCHANGED <<procs, signals, running, watched_streamers, watched_file>>
    /\ UNCHANGED <<monitor_threads, gen, api>>

\* a forceful kill followed by another process.wait
StopKill_WaitsAfter(t) ==
    /\ At(t, "stop_kill")
    /\ IF CanSignal(th[t].proc)
       THEN /\ procs' = SendKill(procs, th[t].proc)
            /\ Goto(t, [th[t] EXCEPT !.pc = "stop_wait"])
            /\ UNCHANGED interrupted
       ELSE /\ Raise(t, "stop")
            /\ UNCHANGED procs
    /\ UNCHANGED <<active_recordings, signals, running,
                   watched_streamers, watched_file>>
    /\ UNCHANGED <<monitor_threads, gen, api, stopped>>

\* line 205, inside the TimeoutExpired handler: an error is not caught
StopKill(t) ==
    /\ At(t, "stop_kill")
    /\ IF CanSignal(th[t].proc)
       THEN /\ procs' = SendKill(procs, th[t].proc)
            /\ Goto(t, [th[t] EXCEPT !.pc = "stop_del2"])
            /\ UNCHANGED interrupted
       ELSE /\ Raise(t, "stop")
            /\ UNCHANGED procs
    /\ UNCHANGED <<active_recordings, signals, running,
                   watched_streamers, watched_file>>
    /\ UNCHANGED <<monitor_threads, gen, api, stopped>>

\* the TimeoutExpired handler without the del of line 209
StopDel2_KeepsSession(t) ==
    /\ At(t, "stop_del2")
    /\ Ret(t, "stop", "True", <<>>)
    /\ stopped' = Stopped(t)
    /\ UNCHANGED <<active_recordings, procs, signals, running,
                   watched_streamers, watched_file>>
    /\ UNCHANGED <<monitor_threads, gen, api>>

\* lines 209-211, inside the TimeoutExpired handler
StopDel2(t) ==
    /\ At(t, "stop_del2")
    /\ IF Has(active_recordings, th[t].chan)
       THEN /\ active_recordings' = Del(active_recordings, th[t].chan)
            /\ Ret(t, "stop", "True", <<>>)
            /\ stopped' = Stopped(t)
       ELSE /\ Raise(t, "stop")
            /\ UNCHANGED <<active_recordings, stopped>>
    /\ UNCHANGED <<procs, signals, running, watched_streamers, watched_file>>
    /\ UNCHANGED <<monitor_threads, gen, api>>

----------------------------------------------------------------------------
(* StreamRecorder.is_recording                                             *)

\* lines 219-220
IsRecCheck(t) ==
    /\ At(t, "isrec_check")
    /\ IF Has(active_recordings, th[t].chan)
       THEN Goto(t, [th[t] EXCEPT !.pc = "isrec_read"]) /\ UNCHANGED interrupted
       ELSE Ret(t, "is_recording", "False", <<>>)
    /\ UNCHANGED <<active_recordings, procs, signals, running,
                   watched_streamers, watched_file>>
    /\ UNCHANGED <<monitor_threads, gen, api, stopped>>

\* lines 222-223
IsRecRead(t) ==
    /\ At(t, "isrec_read")
    /\ IF Has(active_recordings, th[t].chan)
       THEN /\ Goto(t, [th[t] EXCEPT !.pc = "isrec_poll",
                           !.proc = Get(active_recordings, th[t].chan).process])
            /\ UNCHANGED interrupted
       ELSE Raise(t, "is_recording")
    /\ UNCHANGED <<active_recordings, procs, signals, running,
                   watched_streamers, watched_file>>
    /\ UNCHANGED <<monitor_threads, gen, api, stopped>>

\* lines 226, 231: process.poll()
IsRecPoll(t) ==
    /\ At(t, "isrec_poll")
    /\ IF Exited(th[t].proc)
       THEN /\ procs' = Reap(procs, th[t].proc)
            /\ Goto(t, [th[t] EXCEPT !.pc = "isrec_del"])
            /\ UNCHANGED interrupted
       ELSE /\ Ret(t, "is_recording", "True", <<>>)
            /\ UNCHANGED procs
    /\ UNCHANGED <<active_recordings, signals, running,
                   watched_streamers, watched_file>>
    /\ UNCHANGED <<monitor_threads, gen, api, stopped>>

\* lines 228-229
IsRecDel(t) ==
    /\ At(t, "isrec_del")
    /\ IF Has(active_recordings, th[t].chan)
       THEN /\ active_recordings' = Del(active_recordings, th[t].chan)
            /\ Ret(t, "is_recording", "False", <<>>)
       ELSE /\ Raise(t, "is_recording")
            /\ UNCHANGED active_recordings
    /\ UNCHANGED <<procs, signals, running, watched_streamers, watched_file>>
    /\ UNCHANGED <<monitor_threads, gen, api, stopped>>

----------------------------------------------------------------------------
(* StreamRecorder.get_active_recordings.  used is the size of the dict     *)
(* when the iterator of line 237 was created: the iterator raises          *)
(* RuntimeError when the size has changed.  at_call records the processes  *)
(* that had exited when the call was made.                                 *)

ListFrame(ctx) ==
    [Frame0("list_iter") EXCEPT
        !.ctx = ctx, !.pos = 1, !.used = Len(active_recordings),
        !.at_call = {p \in Pids : Exited(p) /\ Referenced(p)}]

\* lines 237-264: one round of the loop, or its end
ListIter(t) ==
    LET fr == th[t] IN
    /\ At(t, "list_iter")
    /\ IF Len(active_recordings) # fr.used
       THEN Raise(t, "list") /\ UNCHANGED procs
       ELSE IF fr.pos > Len(active_recordings)
       THEN /\ Goto(t, [fr EXCEPT !.pc = IF fr.finished = <<>>
                                         THEN "list_copy" ELSE "list_del"])
            /\ UNCHANGED <<procs, interrupted>>
       ELSE LET e == active_recordings[fr.pos] IN
            /\ procs' = Reap(procs, e.process)
            /\ Goto(t, [fr EXCEPT !.pos = @ + 1,
                                  !.finished = IF Exited(e.process)
                                               THEN Append(@, e.key) ELSE @])
            /\ UNCHANGED interrupted
    /\ UNCHANGED <<active_recordings, signals, running,
                   watched_streamers, watched_file>>
    /\ UNCHANGED <<monitor_threads, gen, api, stopped>>

\* lines 266-267: del self.active_recordings[streamer]
ListDel(t) ==
    LET fr == th[t]
        k == Head(fr.finished) IN
    /\ At(t, "list_del")
    /\ IF Has(active_recordings, k)
       THEN /\ active_recordings' = Del(active_recordings, k)
            /\ Goto(t, [fr EXCEPT !.finished = Tail(@),
                                  !.pc = IF Tail(fr.finished) = <<>>
                                         THEN "list_copy" ELSE "list_del"])
            /\ UNCHANGED interrupted
       ELSE /\ Raise(t, "list")
            /\ UNCHANGED active_recordings
    /\ UNCHANGED <<procs, signals, running, watched_streamers, watched_file>>
    /\ UNCHANGED <<monitor_threads, gen, api, stopped>>

\* line 269: return self.active_recordings.copy()
ListCopy(t) ==
    /\ At(t, "list_copy")
    /\ Ret(t, "list", "ok", KeyList(active_recordings))
    /\ UNCHANGED <<active_recordings, procs, signals, running,
                   watched_streamers, watched_file>>
    /\ UNCHANGED <<monitor_threads, gen, api, stopped>>

----------------------------------------------------------------------------
(* StreamRecorder.stop_all_recordings                                      *)

\* line 273: streamers = list(self.active_recordings.keys()), and the first
\* round of the loop
StopAllBegin(t) ==
    /\ At(t, "stopall_begin")
    /\ LET tracked == {active_recordings[i].process :
                           i \in 1..Len(active_recordings)}
       IN  Goto(t, StopAllNext([th[t] EXCEPT
                                   !.tracked = tracked,
                                   !.at_call = {p \in tracked : Exited(p)}],
                               KeyList(active_recordings)))
    /\ UNCHANGED <<active_recordings, procs, interrupted, signals, running,
                   watched_streamers, watched_file>>
    /\ UNCHANGED <<monitor_threads, gen, api, stopped>>

----------------------------------------------------------------------------
(* TwitchAPIClient.is_stream_live.  The answers of the API: a live stream,  *)
(* no stream, a failed request ("error": requests.RequestException, caught  *)
(* by get_stream_info, which returns None), and a response whose body has   *)
(* not the expected shape ("malformed": the KeyError of data['data'] is no  *)
(* RequestException and leaves is_stream_live).                             *)

\* a client for which a failed request counts as a live stream
is_stream_live_ErrorIsLive(ans) == ans \in {"live", "error"}

is_stream_live(ans) == ans = "live"

Escapes(ans) == ans = "malformed"

----------------------------------------------------------------------------
(* TwitRec: the menu thread                                                *)

\* an addition without the membership test
AddWatched_NoTest(w, c) == Append(w, c)

AddWatched(w, c) == IF Contains(w, c) THEN w ELSE Append(w, c)

\* run(), lines 345-356: _initialize_api_client, _load_watched_streamers
Run(ok) ==
    /\ At("main", "run")
    /\ Goto("main", Frame0(IF ok THEN "menu" ELSE "exited"))
    /\ watched_streamers' = IF ok THEN Load(watched_streamers, watched_file)
                            ELSE watched_streamers
    /\ UNCHANGED <<active_recordings, procs, interrupted, signals, running,
                   watched_file>>
    /\ UNCHANGED <<monitor_threads, gen, api, stopped>>

\* start_recording_action, lines 112-122: the channel is not live and the
\* user asks to record it later
StartRecordingOffline(c, ans) ==
    /\ At("main", "menu")
    /\ ~Escapes(ans)
    /\ ~is_stream_live(ans)
    /\ watched_streamers' = AddWatched(watched_streamers, c)
    /\ watched_file' = IF Contains(watched_streamers, c)
                       THEN watched_file ELSE json_dump(watched_streamers')
    /\ Goto("main", Frame0("menu"))
    /\ UNCHANGED <<active_recordings, procs, interrupted, signals, running>>
    /\ UNCHANGED <<monitor_threads, gen, api, stopped>>

\* start_recording_action, line 112: is_stream_live raises; the exception is
\* caught by run() (lines 392-395) and the menu loop goes on
StartRecordingApiError(c, ans) ==
    /\ At("main", "menu")
    /\ Escapes(ans)
    /\ th' = [th EXCEPT !["main"] =
                Unwind([th["main"] EXCEPT !.ctx = "start_action"])]
    /\ returned' = [t |-> "main", op |-> "is_stream_live", chan |-> c,
                    val |-> "raised", keys |-> <<>>]
    /\ UNCHANGED <<active_recordings, procs, interrupted, signals, running,
                   watched_streamers, watched_file>>
    /\ UNCHANGED <<monitor_threads, gen, api, stopped>>

\* start_recording_action, lines 124-137: the channel is live
StartRecordingLive(c, ans, q) ==
    /\ At("main", "menu")
    /\ is_stream_live(ans)
    /\ Goto("main", [Frame0("start_check") EXCEPT
                        !.ctx = "start_action", !.chan = c, !.quality = q])
    /\ UNCHANGED <<active_recordings, procs, interrupted, signals, running,
                   watched_streamers, watched_file>>
    /\ UNCHANGED <<monitor_threads, gen, api, stopped>>

\* stop_recording_action (line 146) and show_active_recordings_action
\* (line 168) begin with get_active_recordings()
ListActive(ctx) ==
    /\ At("main", "menu")
    /\ Goto("main", ListFrame(ctx))
    /\ UNCHANGED <<active_recordings, procs, interrupted, signals, running,
                   watched_streamers, watched_file>>
    /\ UNCHANGED <<monitor_threads, gen, api, stopped>>

\* stop_recording_action, lines 157-161
StopChoose(c) ==
    /\ At("main", "stop_choose")
    /\ Goto("main", [Frame0("stop_check") EXCEPT
                        !.ctx = "stop_action", !.chan = c])
    /\ UNCHANGED <<active_recordings, procs, interrupted, signals, running,
                   watched_streamers, watched_file>>
    /\ UNCHANGED <<monitor_threads, gen, api, stopped>>

\* run(), lines 377-381: menu choice 8
Exit ==
    /\ At("main", "menu")
    /\ Goto("main", [Frame0("stopall_begin") EXCEPT !.ctx = "exit"])
    /\ UNCHANGED <<active_recordings, procs, interrupted, signals, running,
                   watched_streamers, watched_file>>
    /\ UNCHANGED <<monitor_threads, gen, api, stopped>>

\* background_mode_action, lines 307-325
BackgroundMode ==
    /\ At("main", "menu")
    /\ Goto("main", Frame0(IF watched_streamers = <<>>
                           THEN "bg_prompt" ELSE "bg_confirm"))
    /\ UNCHANGED <<active_recordings, procs, interrupted, signals, running,
                   watched_streamers, watched_file>>
    /\ UNCHANGED <<monitor_threads, gen, api, stopped>>

\* the prompt loop without the save of line 320
BackgroundAdd_NoSave(c, more) ==
    /\ At("main", "bg_prompt")
    /\ watched_streamers' = AddWatched(watched_streamers, c)
    /\ Goto("main", Frame0(IF more THEN "bg_prompt" ELSE "bg_confirm"))
    /\ UNCHANGED <<active_recordings, procs, interrupted, signals, running,
                   watched_file>>
    /\ UNCHANGED <<monitor_threads, gen, api, stopped>>

\* background_mode_action, lines 311-323: one name of the prompt loop; the
\* list is saved when the loop ends
BackgroundAdd(c, more) ==
    /\ At("main", "bg_prompt")
    /\ watched_streamers' = AddWatched(watched_streamers, c)
    /\ watched_file' = IF more THEN watched_file
                       ELSE json_dump(watched_streamers')
    /\ Goto("main", Frame0(IF more THEN "bg_prompt" ELSE "bg_confirm"))
    /\ UNCHANGED <<active_recordings, procs, interrupted, signals, running>>
    /\ UNCHANGED <<monitor_threads, gen, api, stopped>>

\* background_mode_action, lines 327-338: start a monitor thread and wait.
\* Line 329 creates the thread whether or not the one of an earlier call is
\* still alive.  th["mon"] is the earliest monitor thread still alive; a
\* thread started while it is alive is counted in monitor_threads and its
\* steps, which are those of th["mon"], are not followed separately.
BackgroundStart(yes) ==
    /\ At("main", "bg_confirm")
    /\ IF yes
       THEN /\ running' = TRUE
            /\ th' = [th EXCEPT !["main"] = Frame0("bg_wait"),
                                !["mon"] = IF th["mon"].pc = "none"
                                           THEN MonFrame(NoFrame, "mon_top")
                                           ELSE th["mon"]]
            /\ returned' = NoRet
            /\ monitor_threads' = monitor_threads + 1
       ELSE /\ Goto("main", Frame0("menu"))
            /\ UNCHANGED <<running, monitor_threads>>
    /\ UNCHANGED <<gen, api, stopped>>
    /\ UNCHANGED <<active_recordings, procs, interrupted, signals,
                   watched_streamers, watched_file>>

\* _signal_handler, lines 58-64, entered wherever the main thread is
Signal ==
    /\ th["main"].pc # "exited"
    /\ th["main"].ctx # "signal"
    /\ signals < MaxSignals
    /\ signals' = signals + 1
    /\ running' = FALSE
    /\ IF th["main"].pc = "run"
       THEN /\ Goto("main", Frame0("exited"))
            /\ UNCHANGED interrupted
       ELSE /\ interrupted' = Interrupted(th["main"])
            /\ Goto("main", [Frame0("stopall_begin") EXCEPT !.ctx = "signal"])
    /\ UNCHANGED <<active_recordings, procs, watched_streamers, watched_file>>
    /\ UNCHANGED <<monitor_threads, gen, api, stopped>>

----------------------------------------------------------------------------
(* TwitRec._background_monitor                                             *)

\* a monitor that also visits the channels of the registry
MonitorLoop_AllSessions(fr) ==
    IF running
    THEN [MonFrame(fr, "mon_next") EXCEPT
            !.todo = watched_streamers \o
                     SelectSeq(KeyList(active_recordings),
                               LAMBDA k : ~Contains(watched_streamers, k)),
            !.at_call = {active_recordings[i].process :
                            i \in {j \in 1..Len(active_recordings) :
                                     Exited(active_recordings[j].process)}}]
    ELSE NoFrame

\* lines 278-279: while self.running / for streamer in self.watched_streamers[:]
MonitorLoop(fr) ==
    IF running
    THEN [MonFrame(fr, "mon_next") EXCEPT
            !.todo = watched_streamers,
            !.at_call = {active_recordings[i].process :
                            i \in {j \in 1..Len(active_recordings) :
                                     Exited(active_recordings[j].process)}}]
    ELSE NoFrame

\* the first loop test of the thread
MonitorTop ==
    /\ At("mon", "mon_top")
    /\ Goto("mon", MonitorLoop(th["mon"]))
    /\ monitor_threads' = IF running THEN monitor_threads
                          ELSE monitor_threads - 1
    /\ UNCHANGED <<gen, api, stopped>>
    /\ UNCHANGED <<active_recordings, procs, interrupted, signals, running,
                   watched_streamers, watched_file>>

\* lines 279-282, 294: the next channel of the tick and its liveness answer;
\* an exception of is_stream_live is caught at line 299 and the loop goes on
\* with the next channel
MonitorNext(ans) ==
    LET fr == th["mon"] IN
    /\ At("mon", "mon_next")
    /\ IF fr.todo # <<>> /\ Escapes(ans)
       THEN /\ th' = [th EXCEPT !["mon"] =
                        [MonFrame(fr, "mon_next") EXCEPT !.todo = Tail(fr.todo)]]
            /\ returned' = [t |-> "mon", op |-> "is_stream_live",
                            chan |-> Head(fr.todo), val |-> "raised",
                            keys |-> <<>>]
       ELSE Goto("mon", IF fr.todo = <<>>
                        THEN MonFrame(NoFrame, "mon_sleep")
                        ELSE [Frame0("isrec_check") EXCEPT
                                 !.ctx = "mon", !.chan = Head(fr.todo),
                                 !.todo = Tail(fr.todo),
                                 !.at_call = fr.at_call,
                                 !.live = is_stream_live(ans),
                                 !.answer = ans])
    /\ UNCHANGED <<active_recordings, procs, interrupted, signals, running,
                   watched_streamers, watched_file>>
    /\ UNCHANGED <<monitor_threads, gen, api, stopped>>

\* line 303: one more second of time.sleep(check_interval) goes by; waited
\* counts the seconds slept
MonitorSleepTick ==
    /\ At("mon", "mon_sleep")
    /\ th["mon"].waited < CheckInterval
    /\ Goto("mon", [th["mon"] EXCEPT !.waited = @ + 1])
    /\ UNCHANGED <<active_recordings, procs, interrupted, signals, running,
                   watched_streamers, watched_file>>
    /\ UNCHANGED <<monitor_threads, gen, api, stopped>>

\* line 303: time.sleep(check_interval) ends, then the loop test of line 278
MonitorSleep ==
    /\ At("mon", "mon_sleep")
    /\ th["mon"].waited = CheckInterval
    /\ Goto("mon", MonitorLoop(th["mon"]))
    /\ monitor_threads' = IF running THEN monitor_threads
                          ELSE monitor_threads - 1
    /\ UNCHANGED <<gen, api, stopped>>
    /\ UNCHANGED <<active_recordings, procs, interrupted, signals, running,
                   watched_streamers, watched_file>>

----------------------------------------------------------------------------
(* The capture tool: a running process may exit at any time                *)

ProcExit(p) ==
    /\ th["main"].pc # "exited"
    /\ procs[p].st = "running"
    /\ procs' = [procs EXCEPT ![p] = Zombie]
    /\ returned' = NoRet
    /\ UNCHANGED <<active_recordings, th, interrupted, signals, running,
                   watched_streamers, watched_file>>
    /\ UNCHANGED <<monitor_threads, gen, api, stopped>>

----------------------------------------------------------------------------
(* StreamRecorder._generate_filename, lines 39-54.  Strings are strings;  *)
(* a clock value is what datetime.now() returns, with the unix timestamp   *)
(* of that local time.                                                     *)

Templates == {"{streamer}_{date}_{time}.mp4", "{timestamp}_{streamer}.mp4",
              "{streamer}/{date}.mp4", "{{streamer}}.mp4", "video.mp4",
              "{date}{streamer}{date}"}

Streamers == {"foo", "date", "time", "{date}", "a{time}", "{timestamp}"}

Clocks == {[year |-> 2026, month |-> 11, day |-> 4, hour |-> 21,
            minute |-> 5, second |-> 40, timestamp |-> 1793826340],
           [year |-> 2024, month |-> 3, day |-> 7, hour |-> 8,
            minute |-> 5, second |-> 9, timestamp |-> 1709798709]}

\* a number of strftime, zero-padded to two digits (%m %d %H %M %S)
Pad2(n) == IF n < 10 THEN "0" \o ToString(n) ELSE ToString(n)

\* now.strftime('%Y-%m-%d')
strftime_date(now) ==
    ToString(now.year) \o "-" \o Pad2(now.month) \o "-" \o Pad2(now.day)

\* now.strftime('%H-%M-%S')
strftime_time(now) ==
    Pad2(now.hour) \o "-" \o Pad2(now.minute) \o "-" \o Pad2(now.second)

\* a dict replacements that holds '{streamer}' last
ReplacementKeys_StreamerLast == <<"{date}", "{time}", "{timestamp}", "{streamer}">>

\* the keys of the dict replacements, in insertion order
ReplacementKeys == <<"{streamer}", "{date}", "{time}", "{timestamp}">>

\* replacements[key], lines 43-48
Replacement(key, streamer, now) ==
    CASE key = "{streamer}" -> streamer
      [] key = "{date}" -> strftime_date(now)
      [] key = "{time}" -> strftime_time(now)
      [] key = "{timestamp}" -> ToString(now.timestamp)

\* str.replace(key, val): the non-overlapping occurrences of key, from the
\* left
RECURSIVE Replace(_, _, _)
Replace(s, key, val) ==
    IF Len(s) < Len(key) THEN s
    ELSE IF SubSeq(s, 1, Len(key)) = key
         THEN val \o Replace(SubSeq(s, Len(key) + 1, Len(s)), key, val)
         ELSE SubSeq(s, 1, 1) \o Replace(SubSeq(s, 2, Len(s)), key, val)

\* everything but the call of _generate_filename
recorder_vars == <<active_recordings, procs, th, returned, interrupted,
                   signals, running, watched_streamers, watched_file,
                   monitor_threads, stopped>>

NoGen == [pc |-> "none", streamer |-> "", template |-> "", now |-> <<>>,
          filename |-> "", keys |-> <<>>]

\* lines 41-50: the call, now = datetime.now(), filename = template
GenerateFilename(streamer, template, now) ==
    /\ gen.pc = "called"
    /\ gen.streamer = streamer /\ gen.template = template /\ gen.now = now
    /\ gen' = [gen EXCEPT !.pc = "loop", !.filename = template,
                          !.keys = ReplacementKeys]
    /\ UNCHANGED <<recorder_vars, api>>

\* lines 51-52: one round of the loop over replacements.items()
ReplaceNext ==
    /\ gen.pc = "loop"
    /\ gen.keys # <<>>
    /\ gen' = [gen EXCEPT
                 !.filename = Replace(@, Head(gen.keys),
                                Replacement(Head(gen.keys), gen.streamer,
                                            gen.now)),
                 !.keys = Tail(@)]
    /\ UNCHANGED <<recorder_vars, api>>

\* line 54: return filename
ReturnFilename ==
    /\ gen.pc = "loop"
    /\ gen.keys = <<>>
    /\ gen' = [gen EXCEPT !.pc = "done"]
    /\ UNCHANGED <<recorder_vars, api>>

----------------------------------------------------------------------------
(* TwitchAPIClient, twitch_client.py.  api.now is datetime.now() in        *)
(* seconds; a call is short against the steps of the clock, which moves    *)
(* between calls.  A token is the time it was obtained at, the lifetime    *)
(* 'expires_in' of the token response, and the value of token_expires.     *)

\* the clock moves in steps of TickSeconds up to MaxTicks steps
TickSeconds == 30
MaxTicks == 8

\* line 43: expires_in - 60
TokenMargin == 60

\* 'expires_in' of a token response, in seconds
Lifetimes == {30, 60, 90, 150}

Fns == {"get_user_info", "get_stream_info", "is_stream_live",
        "get_channel_info", "search_channels"}

\* answers to requests.post / requests.get: a response with data, one with
\* an empty 'data', a network error (ConnectionError, Timeout), an HTTP
\* error status (raise_for_status), a response without the expected key
Outcomes == {"data", "empty", "network", "http", "malformed"}

RequestFailures == {"network", "http"}

NoToken == [t |-> 0, L |-> 0, expires |-> 0, set |-> FALSE]

\* a request that was sent: with which token and when
NoRequest == [token |-> NoToken, at |-> 0, sent |-> FALSE]

NewClient ==
    [pc |-> "idle", now |-> 0, token |-> NoToken, fn |-> "", url |-> "",
     result |-> "none", failure |-> "none", fetched |-> FALSE,
     request |-> NoRequest]

\* an expiry time without the margin
TokenExpires_NoMargin(now, L) == now + L

\* line 43: datetime.now() + timedelta(seconds=expires_in - 60)
TokenExpires(now, L) == now + L - TokenMargin

\* what the except clause of fn returns
NoData(fn) ==
    CASE fn = "search_channels" -> "empty_list"
      [] fn = "is_stream_live" -> "False"
      [] OTHER -> "None"

\* what fn returns for a response with data
Data(fn) ==
    CASE fn = "search_channels" -> "list"
      [] fn = "is_stream_live" -> "True"
      [] OTHER -> "record"

\* the endpoint of the first request of fn
FirstUrl(fn) ==
    CASE fn \in {"get_user_info", "get_channel_info"} -> "users"
      [] fn \in {"get_stream_info", "is_stream_live"} -> "streams"
      [] fn = "search_channels" -> "search/channels"

\* a public method is called
ApiCall(fn) ==
    /\ api.pc = "idle"
    /\ api' = [api EXCEPT !.pc = "headers", !.fn = fn, !.url = FirstUrl(fn),
                          !.result = "none", !.failure = "none",
                          !.fetched = FALSE, !.request = NoRequest]
    /\ UNCHANGED <<recorder_vars, gen>>

\* _get_access_token, lines 24-26, called by _get_headers inside the try
\* block of the method
TokenCheck ==
    /\ api.pc = "headers"
    /\ api' = [api EXCEPT !.pc = IF api.token.set /\ api.now < api.token.expires
                                 THEN "get" ELSE "token"]
    /\ UNCHANGED <<recorder_vars, gen>>

\* the token request outside the try block of the method: its failure
\* leaves the method as an exception
TokenResponse_Uncaught(outcome, L) ==
    /\ api.pc = "token"
    /\ api' = IF outcome \in {"data", "empty"}
              THEN [api EXCEPT !.pc = "get", !.fetched = TRUE,
                               !.token = [t |-> api.now, L |-> L,
                                          expires |-> TokenExpires(api.now, L),
                                          set |-> TRUE]]
              ELSE [api EXCEPT !.pc = "done", !.result = "raised",
                               !.failure = outcome]
    /\ UNCHANGED <<recorder_vars, gen>>

\* _get_access_token, lines 35-45: the token request.  raise_for_status and
\* requests.post raise requests.RequestException, caught by the except
\* clause of the method; a response without 'access_token' raises KeyError.
\* 'expires_in' is read from the response.
TokenResponse(outcome, L) ==
    /\ api.pc = "token"
    /\ api' = CASE outcome \in {"data", "empty"} ->
                    [api EXCEPT !.pc = "get", !.fetched = TRUE,
                                !.token = [t |-> api.now, L |-> L,
                                           expires |-> TokenExpires(api.now, L),
                                           set |-> TRUE]]
                [] outcome \in RequestFailures ->
                    [api EXCEPT !.pc = "done", !.result = NoData(api.fn),
                                !.failure = outcome]
                [] OTHER ->
                    [api EXCEPT !.pc = "done", !.result = "raised",
                                !.failure = outcome]
    /\ UNCHANGED <<recorder_vars, gen>>

\* requests.get with the headers, raise_for_status, response.json() and the
\* return value; get_channel_info goes on to its second request when
\* get_user_info returned a record
GetResponse(outcome) ==
    LET sent == [api EXCEPT !.request = [token |-> api.token, at |-> api.now,
                                         sent |-> TRUE]]
    IN
    /\ api.pc = "get"
    /\ api' = CASE outcome = "data" ->
                    IF api.fn = "get_channel_info" /\ api.url = "users"
                    THEN [sent EXCEPT !.pc = "headers", !.url = "channels"]
                    ELSE [sent EXCEPT !.pc = "done", !.result = Data(api.fn)]
                [] outcome = "empty" ->
                    [sent EXCEPT !.pc = "done", !.result = NoData(api.fn)]
                [] outcome \in RequestFailures ->
                    [sent EXCEPT !.pc = "done", !.result = NoData(api.fn),
                                 !.failure = outcome]
                [] OTHER ->
                    IF api.url = "search/channels"
                    THEN [sent EXCEPT !.pc = "done", !.result = "empty_list"]
                    ELSE [sent EXCEPT !.pc = "done", !.result = "raised",
                                      !.failure = outcome]
    /\ UNCHANGED <<recorder_vars, gen>>

\* the method has returned (or raised) and the client waits for the next call
ApiReturn ==
    /\ api.pc = "done"
    /\ api' = [api EXCEPT !.pc = "idle"]
    /\ UNCHANGED <<recorder_vars, gen>>

\* time goes by between two calls
Tick ==
    /\ api.pc = "idle"
    /\ api.now < MaxTicks * TickSeconds
    /\ api' = [api EXCEPT !.now = @ + TickSeconds]
    /\ UNCHANGED <<recorder_vars, gen>>

\* watched.json at startup: absent (first run), or what an earlier run saved
WatchedFiles == {NoFile, json_dump(<<"b">>)}

Init ==
    /\ active_recordings = <<>>
    /\ procs = <<>>
    /\ th = [t \in Threads |-> IF t = "main" THEN Frame0("run") ELSE NoFrame]
    /\ returned = NoRet
    /\ interrupted = Frame0("menu")
    /\ signals = 0
    /\ running = FALSE
    /\ watched_streamers = <<>>
    /\ watched_file \in WatchedFiles
    /\ monitor_threads = 0
    /\ gen = NoGen
    /\ api = NewClient
    /\ stopped = {}

Supervisor(t) ==
    \/ \E found \in BOOLEAN : StartCheck(t, found)
    \/ \E err \in SpawnErrors \cup {"none"} : StartSpawn(t, err)
    \/ StartPoll(t)
    \/ StartRegister(t)
    \/ StopCheck(t)
    \/ StopRead(t)
    \/ StopTerm(t)
    \/ StopWaitDone(t)
    \/ StopWaitTimeout(t)
    \/ StopDel1(t)
    \/ StopKill(t)
    \/ StopDel2(t)
    \/ IsRecCheck(t)
    \/ IsRecRead(t)
    \/ IsRecPoll(t)
    \/ IsRecDel(t)
    \/ ListIter(t)
    \/ ListDel(t)
    \/ ListCopy(t)
    \/ StopAllBegin(t)

Menu ==
    \/ \E ok \in BOOLEAN : Run(ok)
    \/ \E c \in Channels, ans \in ApiAnswers : StartRecordingOffline(c, ans)
    \/ \E c \in Channels, ans \in ApiAnswers : StartRecordingApiError(c, ans)
    \/ \E c \in Channels, ans \in ApiAnswers, q \in Qualities :
            StartRecordingLive(c, ans, q)
    \/ \E ctx \in {"stop_action", "list_action"} : ListActive(ctx)
    \/ \E c \in Channels : StopChoose(c)
    \/ Exit
    \/ BackgroundMode
    \/ \E c \in Channels, more \in BOOLEAN : BackgroundAdd(c, more)
    \/ \E yes \in BOOLEAN : BackgroundStart(yes)

Monitor ==
    \/ MonitorTop
    \/ \E ans \in ApiAnswers : MonitorNext(ans)
    \/ MonitorSleepTick
    \/ MonitorSleep

Next ==
    \/ \E t \in Threads : Supervisor(t)
    \/ Menu
    \/ Monitor
    \/ Signal
    \/ \E p \in Pids : ProcExit(p)

Spec == Init /\ [][Next]_vars

\* the monitor is a thread of its own (main.py:328-330): the scheduler lets it
\* take the next step of the supervisor call it is in
MonitorFairSpec == Spec /\ WF_vars(Supervisor("mon"))

----------------------------------------------------------------------------
(* _generate_filename on its own: a call with any template, channel name   *)
(* and clock value, on a recorder with nothing else going on               *)

Idle ==
    /\ active_recordings = <<>>
    /\ procs = <<>>
    /\ th = [t \in Threads |-> NoFrame]
    /\ returned = NoRet
    /\ interrupted = Frame0("menu")
    /\ signals = 0
    /\ running = FALSE
    /\ watched_streamers = <<>>
    /\ watched_file = NoFile
    /\ monitor_threads = 0
    /\ stopped = {}

FilenameInit ==
    /\ Idle
    /\ \E streamer \in Streamers, template \in Templates, now \in Clocks :
          gen = [NoGen EXCEPT !.pc = "called", !.streamer = streamer,
                              !.template = template, !.now = now]
    /\ api = NewClient

FilenameNext ==
    \/ \E streamer \in Streamers, template \in Templates, now \in Clocks :
          GenerateFilename(streamer, template, now)
    \/ ReplaceNext
    \/ ReturnFilename

FilenameSpec == FilenameInit /\ [][FilenameNext]_vars

----------------------------------------------------------------------------
(* The API client on its own: calls of its public methods, with any answer *)
(* of the platform, as time goes by                                        *)

ApiInit ==
    /\ Idle
    /\ gen = NoGen
    /\ api = NewClient

ApiNext ==
    \/ \E fn \in Fns : ApiCall(fn)
    \/ TokenCheck
    \/ \E outcome \in Outcomes, L \in Lifetimes : TokenResponse(outcome, L)
    \/ \E outcome \in Outcomes : GetResponse(outcome)
    \/ ApiReturn
    \/ Tick

ApiSpec == ApiInit /\ [][ApiNext]_vars

----------------------------------------------------------------------------
(* Properties                                                              *)

\* thread t itself takes this step (not the signal handler entering on it)
Stepped(t) == th'[t] # th[t] /\ signals' = signals

Result(t, op, c, val) ==
    [t |-> t, op |-> op, chan |-> c, val |-> val, keys |-> <<>>]

Running(p) == procs[p].st = "running"

Registered(p) ==
    \E i \in 1..Len(active_recordings) : active_recordings[i].process = p

\* C1: when two start(c) calls race past the 'already active' check, the
\* call that registers second replaces the session of the first; the contract
\* says that no capture process is left running outside the registry, so the
\* process of the replaced session must not be running.
C1_StartRaceLeavesNoProcess ==
    [][\A t \in Threads :
        (/\ th[t].pc = "start_register"
         /\ Stepped(t)
         /\ Has(active_recordings, th[t].chan))
        => ~Running(Get(active_recordings, th[t].chan).process)]_vars

\* C2: start(c) on a channel with a registered session returns False, spawns
\* no process and leaves the registry as it is; a start(c) that returns True
\* leaves exactly one session for c, the one of the process it spawned.
C2_StartOnActive ==
    [][\A t \in Threads :
        /\ (/\ th[t].pc = "start_check"
            /\ Stepped(t)
            /\ Has(active_recordings, th[t].chan))
           => /\ returned' = Result(t, "start", th[t].chan, "False")
              /\ procs' = procs
              /\ active_recordings' = active_recordings
        /\ (returned'.t = t /\ returned'.op = "start" /\ returned'.val = "True")
           => /\ Cardinality({i \in 1..Len(active_recordings') :
                    active_recordings'[i].key = th[t].chan}) = 1
              /\ Get(active_recordings', th[t].chan) = Session(th[t])]_vars

C2_Witness ==
    /\ returned = Result("main", "start", returned.chan, "False")
    /\ Has(active_recordings, returned.chan)
    /\ th["mon"].pc = "none"

\* C3: a launch-time failure of start (no executable, an error of open or
\* Popen, the process exiting within the start-up delay) returns False, no
\* step of a start call other than the registration before 'return True'
\* writes the registry, and a session appears or changes in the registry
\* only in the step that returns True for its channel.
C3_FailedStartRegistersNothing ==
    [][\A t \in Threads :
        /\ (th[t].pc \in {"start_check", "start_spawn", "start_poll"} /\ Stepped(t))
           => active_recordings' = active_recordings
        /\ (th[t].pc = "start_spawn" /\ Stepped(t) /\ th'[t].pc # "start_poll")
           => returned' = Result(t, "start", th[t].chan, "False")
        /\ (th[t].pc = "start_poll" /\ Stepped(t) /\ Exited(th[t].proc))
           => returned' = Result(t, "start", th[t].chan, "False")
        /\ (returned'.t = t /\ returned'.op = "start" /\ returned'.val = "False")
           => active_recordings' = active_recordings
        /\ \A c \in Channels :
            (/\ Has(active_recordings', c)
             /\ Has(active_recordings, c)
                    => Get(active_recordings', c) # Get(active_recordings, c))
            => \E u \in Threads : returned' = Result(u, "start", c, "True")]_vars

C3_Witness ==
    /\ returned = Result("main", "start", returned.chan, "False")
    /\ active_recordings = <<>>
    /\ procs = <<Gone>>
    /\ th["mon"].pc = "none"

\* C4: when stop(c) returns True, after a graceful exit or after the
\* forceful kill, no session for c is registered, and is_recording(c) on a
\* channel without a session returns False.
C4_StopTrueRemoves ==
    [][\A t \in Threads :
        /\ (returned'.t = t /\ returned'.op = "stop" /\ returned'.val = "True")
           => /\ th[t].pc \in {"stop_del1", "stop_del2"}
              /\ ~Has(active_recordings', th[t].chan)
        /\ (/\ th[t].pc = "isrec_check"
            /\ Stepped(t)
            /\ ~Has(active_recordings, th[t].chan))
           => /\ returned' = Result(t, "is_recording", th[t].chan, "False")
              /\ active_recordings' = active_recordings]_vars

\* stop returned True on the forceful path: the only process was killed and
\* its exit status has not been collected
C4_Witness ==
    /\ returned.op = "stop"
    /\ returned.val = "True"
    /\ procs = <<Zombie>>
    /\ active_recordings = <<>>

\* C5: stop(c) without a session for c returns False, signals no process and
\* leaves the registry as it is.
C5_StopWithoutSession ==
    [][\A t \in Threads :
        (/\ th[t].pc = "stop_check"
         /\ Stepped(t)
         /\ ~Has(active_recordings, th[t].chan))
        => /\ returned' = Result(t, "stop", th[t].chan, "False")
           /\ procs' = procs
           /\ active_recordings' = active_recordings]_vars

C5_Witness ==
    /\ returned = Result("main", "stop", returned.chan, "False")
    /\ active_recordings # <<>>
    /\ ~Has(active_recordings, returned.chan)
    /\ th["mon"].pc = "none"
    /\ signals = 0

\* C6: stop(c) sends SIGTERM first and waits at most StopTimeout seconds;
\* the kill is sent only after that wait ran out with the process still
\* running, it is then always sent, and the escalated path returns True.
C6_TermThenKill ==
    [][\A t \in Threads :
        /\ (th'[t].pc = "stop_wait" /\ Stepped(t))
           => th[t].pc = "stop_term" /\ procs' = SendTerm(procs, th[t].proc)
        /\ (th'[t].pc = "stop_kill" /\ Stepped(t))
           => /\ th[t].pc = "stop_wait"
              /\ ~Exited(th[t].proc)
              /\ th'[t].waited <= StopTimeout
        /\ (th[t].pc = "stop_wait" /\ Stepped(t) /\ ~Exited(th[t].proc))
           => th'[t].pc = "stop_kill"
        /\ (th[t].pc = "stop_kill" /\ Stepped(t))
           => th'[t].pc = "stop_del2" /\ procs'[th[t].proc].st # "running"
        /\ (th[t].pc = "stop_del2" /\ Stepped(t))
           => returned' = Result(t, "stop", th[t].chan, "True")]_vars

\* C7: once the tracked process of c has exited, is_recording(c) evicts the
\* session of c and returns False; it returns True only with a session for
\* c registered and the tracked process running.
C7_IsRecordingEvicts ==
    [][\A t \in Threads :
        /\ (/\ th[t].pc \in {"isrec_poll", "isrec_del"}
            /\ Stepped(t)
            /\ Exited(th[t].proc))
           => \/ th'[t].pc = "isrec_del"
              \/ /\ returned' = Result(t, "is_recording", th[t].chan, "False")
                 /\ ~Has(active_recordings', th[t].chan)
        /\ (/\ returned'.t = t
            /\ returned'.op = "is_recording"
            /\ returned'.val = "True")
           => /\ Has(active_recordings, th[t].chan)
              /\ Running(th[t].proc)]_vars

\* C8: the dict returned by get_active_recordings holds no session whose
\* process had exited when the call was made, and its keys are the keys of
\* the registry at the return.
C8_ListReturnsNoExited ==
    [][\A t \in Threads :
        (th[t].pc = "list_copy" /\ Stepped(t))
        => /\ returned'.keys = KeyList(active_recordings')
           /\ \A i \in 1..Len(active_recordings') :
                active_recordings'[i].process \notin th[t].at_call]_vars

\* C9: stop_all_recordings calls stop_recording for every channel of its
\* list: while channels are left in the list, the call goes on, whatever
\* the stop of the earlier channels did.
C9_StopAllAttemptsAll ==
    [][(/\ th["main"].ctx \in {"exit", "signal"}
        /\ th["main"].streamers # <<>>
        /\ Stepped("main"))
       => th'["main"].ctx = th["main"].ctx]_vars

\* C10: when stop_all_recordings returns after a call made with several
\* sessions registered, all of them with a running process, and with a
\* stop_recording that waited its whole timeout, the registry is empty and
\* no process of those sessions is running.
C10_StopAllEmpties ==
    (/\ th["main"].pc = "exited"
     /\ Cardinality(th["main"].tracked) >= 2
     /\ th["main"].at_call = {}
     /\ th["main"].waited = StopTimeout)
    => /\ active_recordings = <<>>
       /\ \A p \in th["main"].tracked : ~Running(p)

\* C11: no error of spawning the capture process or of delivering a signal
\* leaves a supervisor operation: the step that runs Popen (line 118),
\* os.killpg with SIGTERM (line 191) or os.killpg with SIGKILL (line 205)
\* never ends in an escaping exception.
C11_NoSpawnOrSignalErrorEscapes ==
    [][\A t \in Threads :
        (th[t].pc \in {"start_spawn", "stop_term", "stop_kill"} /\ Stepped(t))
        => returned'.val # "raised"]_vars

\* C12: a session whose process had exited when a pass of the monitor over
\* the watch-list began is no longer registered when that pass ends,
\* whether its channel is watched or not.
C12_DeadSessionGoneAfterTick ==
    [][(/\ th["mon"].pc = "mon_next"
        /\ th["mon"].todo = <<>>
        /\ Stepped("mon"))
       => \A i \in 1..Len(active_recordings) :
            active_recordings[i].process \notin th["mon"].at_call]_vars

\* C13: for each watched channel of a pass, the monitor calls
\* start_recording with the default quality exactly when the channel is
\* reported live and is_recording returned False, calls stop_recording
\* exactly when it is reported offline and is_recording returned True, and
\* goes on to the next channel otherwise.
C13_MonitorDecisions ==
    [][LET fr == th["mon"]
           to == th'["mon"]
       IN  /\ (/\ returned'.t = "mon"
               /\ returned'.op = "is_recording"
               /\ returned'.val \in {"True", "False"})
              => /\ to.pc = IF fr.live /\ returned'.val = "False"
                            THEN "start_check"
                            ELSE IF ~fr.live /\ returned'.val = "True"
                            THEN "stop_check"
                            ELSE "mon_next"
                 /\ to.pc = "start_check"
                        => to.chan = fr.chan /\ to.quality = DefaultQuality
                 /\ to.pc = "stop_check" => to.chan = fr.chan
           /\ (to.pc \in {"start_check", "stop_check"} /\ to # fr)
              => /\ returned'.t = "mon"
                 /\ returned'.op = "is_recording"
                 /\ returned'.val \in {"True", "False"}]_vars

\* the monitor stops a recording channel that is reported offline
C13_Witness ==
    /\ th["mon"].pc = "stop_check"
    /\ returned = Result("mon", "is_recording", th["mon"].chan, "True")
    /\ Has(active_recordings, th["mon"].chan)

\* C14: an exception raised while the monitor processes one watched
\* channel (by is_stream_live, or leaving is_recording, start_recording or
\* stop_recording) is caught: the monitor goes on with the channels of the
\* watch-list that come after it in the same pass, and its loop keeps
\* running.
C14_MonitorCatchesPerChannel ==
    [][LET fr == th["mon"]
           rest == IF fr.pc = "mon_next" THEN Tail(fr.todo) ELSE fr.todo
       IN  (returned'.t = "mon" /\ returned'.val = "raised")
           => /\ th'["mon"].pc = "mon_next"
              /\ th'["mon"].todo = rest]_vars

\* an exception left a supervisor operation of the monitor with a channel
\* of the pass still to come
C14_Witness ==
    /\ returned.t = "mon"
    /\ returned.val = "raised"
    /\ returned.op # "is_stream_live"
    /\ th["mon"].pc = "mon_next"
    /\ th["mon"].todo # <<>>

\* C15: the running flag is also looked at during the sleep between two
\* passes: once the flag is False, the sleeping monitor does not sleep a
\* further second, its next step leaves the loop.
C15_FlagSeenDuringSleep ==
    [][(/\ th["mon"].pc = "mon_sleep"
        /\ ~running
        /\ Stepped("mon"))
       => th'["mon"].pc = "none"]_vars

\* C16: when the process exits from _signal_handler (sys.exit(0) after
\* stop_all_recordings), the registry is empty and no process of a session
\* that the handler found registered is running.
C16_SignalStopsEverything ==
    (th["main"].pc = "exited" /\ th["main"].ctx = "signal")
    => /\ active_recordings = <<>>
       /\ \A p \in th["main"].tracked : ~Running(p)

\* C17: stop_all_recordings always terminates.  While it runs, every step of
\* its thread either ends it or lowers a bound (the channels still to stop,
\* then the position inside the current stop_recording), and a step is
\* always possible; a call that resumes after the signal handler, which had
\* interrupted it, ended with an exception resumes below the bound it was
\* interrupted at.  A stop_recording calls process.wait at most once, for at
\* most StopTimeout seconds, and never after the kill, so that the whole
\* call makes at most as many waits as there were sessions when it began.
StopAllCtx == {"exit", "signal"}

StopPcs == {"stop_check", "stop_read", "stop_term", "stop_wait", "stop_del1",
            "stop_kill", "stop_del2"}

InStopAll(fr) == fr.ctx \in StopAllCtx /\ fr.pc \in StopPcs

PcRank(pc) ==
    CASE pc = "stop_check" -> 6
      [] pc = "stop_read" -> 5
      [] pc = "stop_term" -> 4
      [] pc = "stop_wait" -> 3
      [] pc \in {"stop_del1", "stop_kill"} -> 2
      [] pc = "stop_del2" -> 1
      [] OTHER -> 0

StopAllRank(fr) == 7 * Len(fr.streamers) + PcRank(fr.pc)

C17_StopAllTerminates ==
    /\ [][(InStopAll(th["main"]) /\ Stepped("main"))
          => LET fr == th["main"]
                 to == th'["main"]
             IN  /\ (InStopAll(to) /\ to.ctx = fr.ctx)
                    => StopAllRank(to) < StopAllRank(fr)
                 /\ (InStopAll(to) /\ to.ctx # fr.ctx)
                    => StopAllRank(to) < StopAllRank(interrupted)
                 /\ (InStopAll(to) \/ to.pc = "exited")
                    => to.waits <= Cardinality(to.tracked)
                 /\ to.waited <= StopTimeout
                 /\ fr.pc \in {"stop_kill", "stop_del2"}
                    => to.pc # "stop_wait"]_vars
    /\ [](InStopAll(th["main"]) => ENABLED <<Supervisor("main")>>_vars)

\* stop_all_recordings, called with two sessions, is in its second
\* stop_recording, which has waited the whole timeout for a process that did
\* not react to SIGTERM and has just killed it
C17_Witness ==
    /\ InStopAll(th["main"])
    /\ th["main"].pc = "stop_del2"
    /\ th["main"].streamers = <<>>
    /\ Cardinality(th["main"].tracked) = 2
    /\ th["main"].waits = 2
    /\ th["main"].waited = StopTimeout
    /\ procs[th["main"].proc].st = "zombie"

\* C18: at any time at most one thread runs _background_monitor, whatever
\* the sequence of entering background mode, leaving it and entering again.
C18_AtMostOneMonitor == monitor_threads <= 1

\* C19: operations on different channel keys do not interfere; in
\* particular get_active_recordings does not fail because another thread
\* registers or removes a session during its scan: no round of its loop
\* (lines 237-264) raises.
C19_ListScanDoesNotFail ==
    [][\A t \in Threads :
        (th[t].pc = "list_iter" /\ Stepped(t)) => returned'.val # "raised"]_vars

\* C20: the watch-list never holds a name twice and keeps the order of first
\* insertion: a step leaves it as it is, loads it from the file at startup,
\* or puts one name that it does not hold yet at its end; an addition at the
\* background-mode prompt of a name already present leaves it unchanged.
NoDuplicates(w) == \A i, j \in 1..Len(w) : w[i] = w[j] => i = j

C20_WatchListOrderedSet ==
    /\ [](/\ NoDuplicates(watched_streamers)
          /\ NoDuplicates(json_load(watched_file)))
    /\ [][\/ watched_streamers' = watched_streamers
          \/ /\ th["main"].pc = "run"
             /\ watched_streamers' = json_load(watched_file)
          \/ \E c \in Channels :
                /\ ~Contains(watched_streamers, c)
                /\ watched_streamers' = Append(watched_streamers, c)]_vars
    /\ [][(th["main"].pc = "bg_prompt" /\ Stepped("main"))
          => \E c \in Channels :
                watched_streamers' = IF Contains(watched_streamers, c)
                                     THEN watched_streamers
                                     ELSE Append(watched_streamers, c)]_vars

\* both names were added at the background-mode prompt, "b" first, and the
\* prompt asks for one more name, which can only be one already present
C20_Witness ==
    /\ th["main"].pc = "bg_prompt"
    /\ watched_streamers = <<"b", "a">>
    /\ watched_file = NoFile

\* C21: the persisted watch-list round-trips.  Whenever a step changes the
\* in-memory watch-list outside the prompt loop of background mode, and
\* whenever that prompt loop ends, watched.json holds what json.dump writes
\* for the in-memory list, and loading the file yields the same names in the
\* same order.
C21_WatchListRoundTrips ==
    [][(\/ /\ watched_streamers' # watched_streamers
           /\ th'["main"].pc # "bg_prompt"
        \/ /\ th["main"].pc = "bg_prompt"
           /\ th'["main"].pc = "bg_confirm")
       => /\ watched_file' = json_dump(watched_streamers')
          /\ Load(<<>>, watched_file') = watched_streamers']_vars

\* the prompt loop has ended after "b" and "a" were added in this order and
\* the file holds the two names
C21_Witness ==
    /\ th["main"].pc = "bg_confirm"
    /\ watched_streamers = <<"b", "a">>
    /\ json_load(watched_file) = <<"b", "a">>

\* C22: the generated file name is the template with every placeholder of
\* the template replaced by its value (the channel name, the date as
\* YYYY-MM-DD, the time as HH-MM-SS, the unix timestamp) and all other text
\* of the template kept.
Placeholder(s) ==
    IF \E i \in 1..Len(ReplacementKeys) :
           /\ Len(s) >= Len(ReplacementKeys[i])
           /\ SubSeq(s, 1, Len(ReplacementKeys[i])) = ReplacementKeys[i]
    THEN ReplacementKeys[CHOOSE i \in 1..Len(ReplacementKeys) :
           /\ Len(s) >= Len(ReplacementKeys[i])
           /\ SubSeq(s, 1, Len(ReplacementKeys[i])) = ReplacementKeys[i]]
    ELSE ""

RECURSIVE Substituted(_, _, _)
Substituted(template, streamer, now) ==
    IF template = "" THEN ""
    ELSE LET key == Placeholder(template) IN
         IF key # ""
         THEN Replacement(key, streamer, now) \o
              Substituted(SubSeq(template, Len(key) + 1, Len(template)),
                          streamer, now)
         ELSE SubSeq(template, 1, 1) \o
              Substituted(SubSeq(template, 2, Len(template)), streamer, now)

C22_FilenameIsSubstitution ==
    gen.pc = "done"
    => /\ gen.filename = Substituted(gen.template, gen.streamer, gen.now)
       /\ Len(strftime_date(gen.now)) = 10
       /\ Len(strftime_time(gen.now)) = 8

\* C23: a call of the API client that met a request failure (a network
\* error or an HTTP error status, of its own request or of the token
\* request) ends with 'no data' (None, an empty list, False for
\* is_stream_live), not with an exception.
C23_RequestFailureIsNoData ==
    (api.pc = "done" /\ api.failure \in RequestFailures)
    => api.result = NoData(api.fn) /\ api.result # "raised"

\* a call ended by a failed token request
C23_Witness ==
    /\ api.pc = "done"
    /\ api.failure \in RequestFailures
    /\ ~api.request.sent
    /\ api.fn = "search_channels"
    /\ api.result = "empty_list"

\* C24: a request is sent with the cached token only while
\* now < t + L - 60, t being the time the token was obtained at and L its
\* lifetime; from that instant on a new token is fetched before the request
\* is sent; no request is sent with a token past its expiry t + L.
C24_TokenRefreshedInTime ==
    /\ [](api.request.sent
          => /\ api.request.token.set
             /\ api.request.at < api.request.token.t + api.request.token.L
             /\ api.request.token.t < api.request.at
                => api.request.at < api.request.token.t + api.request.token.L
                                    - TokenMargin)
    /\ [][(api.pc = "headers" /\ api'.pc = "get")
          => /\ api.token.set
             /\ api.now < api.token.t + api.token.L - TokenMargin]_vars
    /\ [][(/\ api.pc = "headers"
           /\ api.token.set => api.now >= api.token.t + api.token.L - TokenMargin)
          => api'.pc = "token"]_vars

\* a request has been sent with a token fetched for it because the cached
\* one, of a lifetime of 60 seconds or less, could not be reused
C24_Witness ==
    /\ api.request.sent
    /\ api.fetched
    /\ api.request.token.L <= TokenMargin
    /\ api.request.at > 0

\* C25: an exception that leaves a menu action (start, stop, list, exit) on
\* the main thread is caught by run(): the process goes on and the menu is
\* shown again.
MenuActions == {"start_action", "stop_action", "list_action", "exit", "none"}

C25_RunCatchesActionErrors ==
    [][(/\ returned'.t = "main"
        /\ returned'.val = "raised"
        /\ th["main"].ctx \in MenuActions)
       => th'["main"] = Frame0("menu")]_vars

\* the listing of the active recordings has raised and the menu is shown
C25_Witness ==
    /\ returned.t = "main"
    /\ returned.val = "raised"
    /\ returned.op = "list"
    /\ th["main"] = Frame0("menu")

\* C26: the monitor calls the supervisor only for channels of the
\* watch-list, and no step of the monitor thread changes or removes the
\* session of a channel that is not on the watch-list, or signals or polls
\* its process.
C26_MonitorKeepsToWatchList ==
    /\ [](th["mon"].chan # "" => Contains(watched_streamers, th["mon"].chan))
    /\ [][Stepped("mon")
          => \A c \in Channels :
                (~Contains(watched_streamers, c) /\ Has(active_recordings, c))
                => /\ Has(active_recordings', c)
                   /\ Get(active_recordings', c) = Get(active_recordings, c)
                   /\ procs'[Get(active_recordings, c).process]
                        = procs[Get(active_recordings, c).process]]_vars

\* the monitor has stopped or started a watched channel while a session
\* started by hand for a channel outside the watch-list is registered
C26_Witness ==
    /\ returned.t = "mon"
    /\ returned.op \in {"start", "stop"}
    /\ returned.val = "True"
    /\ \E c \in Channels :
          ~Contains(watched_streamers, c) /\ Has(active_recordings, c)

\* C27: a liveness query that fails with a request error counts as 'not
\* live': when is_recording then returns True for that watched channel, the
\* monitor calls stop_recording for it, as it does after an offline answer;
\* when it returns False the monitor goes on to the next channel.
C27_RequestErrorIsOffline ==
    [][(/\ returned'.t = "mon"
        /\ returned'.op = "is_recording"
        /\ returned'.val \in {"True", "False"}
        /\ th["mon"].answer \in {"error", "offline"})
       => IF returned'.val = "True"
          THEN /\ th'["mon"].pc = "stop_check"
               /\ th'["mon"].chan = th["mon"].chan
          ELSE th'["mon"].pc = "mon_next"]_vars

\* after a failed liveness query for a channel with a registered session the
\* monitor is about to stop it
C27_Witness ==
    /\ th["mon"].pc = "stop_check"
    /\ th["mon"].answer = "error"
    /\ returned = Result("mon", "is_recording", th["mon"].chan, "True")
    /\ Has(active_recordings, th["mon"].chan)

\* C28: a stop(c) that returns False has left the registry as it was: no
\* step of stop_recording before its del writes the registry, and neither
\* does the step that returns False.  When the session of c exists and the
\* SIGTERM cannot be delivered because the process is gone, stop returns
\* False, and the session of a process that is gone stays registered until a
\* step of is_recording or get_active_recordings evicts it (the only other
\* step that removes a session is the del of a stop that had delivered its
\* signal before, and that stop returns True).
C28_FailedStopKeepsRegistry ==
    [][\A t \in Threads :
        /\ (/\ th[t].pc \in {"stop_check", "stop_read", "stop_term",
                              "stop_wait", "stop_kill"}
            /\ Stepped(t))
           => active_recordings' = active_recordings
        /\ (returned'.t = t /\ returned'.op = "stop" /\ returned'.val = "False")
           => active_recordings' = active_recordings
        /\ (th[t].pc = "stop_term" /\ Stepped(t) /\ ~CanSignal(th[t].proc))
           => returned' = Result(t, "stop", th[t].chan, "False")
        /\ \A c \in Channels :
             (/\ Has(active_recordings, c)
              /\ procs[Get(active_recordings, c).process] = Gone
              /\ ~Has(active_recordings', c))
             => \E u \in Threads :
                   /\ Stepped(u)
                   /\ \/ th[u].pc \in {"isrec_del", "list_del"}
                      \/ /\ th[u].pc \in {"stop_del1", "stop_del2"}
                         /\ returned' = Result(u, "stop", c, "True")]_vars

\* stop(c) has returned False because the process of the session of c is
\* gone, and the session is still registered
C28_Witness ==
    /\ returned.op = "stop"
    /\ returned.val = "False"
    /\ Has(active_recordings, returned.chan)
    /\ procs[Get(active_recordings, returned.chan).process] = Gone

\* C29: when stop(c) calls race on one session, at most one of them returns
\* True, the session is removed once, and no session of c is registered
\* afterwards: a stop(c) whose session another stop has already reported
\* removed neither returns True nor writes the registry, and the step that
\* returns True leaves no session of c behind.
C29_RacingStopsRemoveOnce ==
    [][\A t \in Threads :
        /\ (/\ Stepped(t)
            /\ th[t].pc \in {"stop_term", "stop_wait", "stop_kill",
                              "stop_del1", "stop_del2"}
            /\ th[t].proc \in stopped)
           => /\ returned' # Result(t, "stop", th[t].chan, "True")
              /\ active_recordings' = active_recordings
        /\ (/\ Stepped(t)
            /\ th[t].pc \in {"stop_del1", "stop_del2"}
            /\ returned' = Result(t, "stop", th[t].chan, "True"))
           => ~Has(active_recordings', th[t].chan)]_vars

\* C30: is_recording(c) and get_active_recordings() return normally under
\* every interleaving with a stop(c), is_recording(c) or
\* get_active_recordings() of the other thread: the read and the del that
\* follow the membership test (is_recording, lines 222 and 228) and the del
\* of the eviction pass (get_active_recordings, line 267) never raise
\* because the other thread removed the entry in between.
C30_EvictionDoesNotFail ==
    [][\A t \in Threads :
        (th[t].pc \in {"isrec_read", "isrec_del", "list_del"} /\ Stepped(t))
        => returned'.val # "raised"]_vars

\* C31: when the process exits from _signal_handler, no capture process that
\* start_recording ever spawned is running, whether its session was
\* registered or the start_recording that spawned it had not registered it
\* yet when the handler ran stop_all_recordings.
C31_NoProcessOutlivesSignalExit ==
    (th["main"].pc = "exited" /\ th["main"].ctx = "signal")
    => \A p \in 1..Len(procs) : ~Running(p)

\* C32: while the monitor runs, a watched channel that is reported live at a
\* tick and has no live session is recorded again within the tick when the
\* launch succeeds.  The is_recording of the tick that finds no session, or
\* a session whose process has exited (which it evicts), is followed by
\* start_recording for the channel; a launch whose process is alive at the
\* poll goes on to register, and the registering step leaves a session of
\* the channel with the launched process, returns True and ends the
\* channel's turn in the tick; and under a fair scheduling of the monitor
\* thread the turn of the channel does end (or the program exits first).
MonitorLaunchPcs ==
    {"isrec_check", "isrec_read", "isrec_poll", "isrec_del",
     "start_check", "start_spawn", "start_poll", "start_register"}

C32_LiveWatchedChannelIsRecorded ==
    /\ [][LET fr == th["mon"]
              to == th'["mon"]
              rec == active_recordings'
          IN  (Stepped("mon") /\ fr.ctx = "mon")
              => /\ (/\ fr.pc = "isrec_check" /\ fr.live
                     /\ ~Has(active_recordings, fr.chan))
                    => to.pc = "start_check" /\ to.chan = fr.chan
                 /\ (fr.pc = "isrec_poll" /\ fr.live /\ Exited(fr.proc))
                    => to.pc = "isrec_del" /\ to.chan = fr.chan
                 /\ (/\ fr.pc = "isrec_del" /\ fr.live
                     /\ Has(active_recordings, fr.chan))
                    => /\ to.pc = "start_check" /\ to.chan = fr.chan
                       /\ ~Has(rec, fr.chan)
                 /\ (fr.pc = "start_poll" /\ ~Exited(fr.proc))
                    => /\ to.pc = "start_register"
                       /\ to.chan = fr.chan /\ to.proc = fr.proc
                 /\ fr.pc = "start_register"
                    => /\ Has(rec, fr.chan)
                       /\ Get(rec, fr.chan).process = fr.proc
                       /\ returned' = Result("mon", "start", fr.chan, "True")
                       /\ to.pc = "mon_next"]_vars
    /\ (/\ th["mon"].ctx = "mon"
        /\ th["mon"].pc \in MonitorLaunchPcs
        /\ th["mon"].pc \in {"start_check", "start_spawn", "start_poll",
                              "start_register"} \/ th["mon"].live)
       ~> (th["mon"].pc = "mon_next" \/ th["main"].pc = "exited")

\* the monitor has started a recording again after an earlier capture
\* process of the channel had exited on its own and its session was evicted
C32_Witness ==
    /\ returned.t = "mon" /\ returned.op = "start" /\ returned.val = "True"
    /\ th["mon"].pc = "mon_next"
    /\ Has(active_recordings, returned.chan)
    /\ Running(Get(active_recordings, returned.chan).process)
    /\ \E p \in 1..Len(procs) : procs[p] = Gone
    /\ Len(active_recordings) = 1

\* C33: the placeholders are substituted one after another in the order
\* {streamer}, {date}, {time}, {timestamp}, each on the result of the
\* substitution before it: after k rounds of the loop the file name is the
\* k-fold replacement of the template; so placeholder text that the channel
\* name brings in is expanded as well, and a channel name that contains
\* "{date}", "{time}" or "{timestamp}" does not occur in the file name.
FixedOrder == <<"{streamer}", "{date}", "{time}", "{timestamp}">>

RECURSIVE Chain(_, _, _, _)
Chain(k, template, streamer, now) ==
    IF k = 0 THEN template
    ELSE Replace(Chain(k - 1, template, streamer, now), FixedOrder[k],
                 Replacement(FixedOrder[k], streamer, now))

Occurs(sub, s) ==
    \E i \in 1..(Len(s) - Len(sub) + 1) : SubSeq(s, i, i + Len(sub) - 1) = sub

C33_PlaceholdersSubstitutedInOrder ==
    gen.pc \in {"loop", "done"}
    => /\ gen.filename = Chain(Len(FixedOrder) - Len(gen.keys), gen.template,
                               gen.streamer, gen.now)
       /\ (/\ gen.pc = "done"
           /\ \E k \in 2..Len(FixedOrder) : Occurs(FixedOrder[k], gen.streamer))
          => ~Occurs(gen.streamer, gen.filename)

\* the channel name "{date}" has been expanded like the template's own {date}
C33_Witness ==
    /\ gen.pc = "done"
    /\ gen.streamer = "{date}"
    /\ gen.template = "{streamer}/{date}.mp4"
    /\ gen.filename = "2024-03-07/2024-03-07.mp4"

============================================================================
